---- MODULE Spec2Model ----
(***************************************************************************)
(* A model of the separate-chaining HashTable of Project2/hashtable.hpp.   *)
(*                                                                         *)
(* The table is the four fields buckets, firstBucketIt, tableSize and      *)
(* maxLoadFactor.  A bucket is a sequence of <<key, value>> pairs, head    *)
(* first; bucket index b of the code is buckets[b + 1] here.  Iterators    *)
(* into the bucket vector are offsets from buckets.begin(), so that        *)
(* buckets.end() is the offset Len(buckets).  A list position is the       *)
(* number of nodes before it: before_begin() is 0, the i-th node is i and  *)
(* end() is Len(chain) + 1.                                                *)
(*                                                                         *)
(* maxLoadFactor is a double in the code; here it is a fraction            *)
(* <<num, den>> and the load factors used are powers of two, for which the *)
(* double arithmetic of the code is exact.                                 *)
(***************************************************************************)
EXTENDS Integers, Sequences, FiniteSets, TLC

(* ---- bounds of the model ---- *)
\* how many entries of HashPrime::g_a_sizes the model keeps
NumSizes == 2
\* how many distinct keys the callers use
NumKeys == 3

(* ---- hash_prime.hpp: the ascending table of admissible sizes, of which ---- *)
(* ---- the model keeps the first NumSizes (g_a_sizes[0] is 5)           ---- *)
PrimeTable == <<5, 11, 23, 47, 97, 199>>
g_a_sizes == SubSeq(PrimeTable, 1, NumSizes)
num_distinct_sizes == Len(g_a_sizes)

(* ---- inputs ---- *)
KeyTable == <<1, 6, 12, 3, 17>>
Keys == {KeyTable[i] : i \in 1..NumKeys}
\* the values stored, 0 being Value()
Values == {0, 1}
\* the bucket counts callers ask for: none, tiny, each admissible size, one
\* past each admissible size (the last of them has no admissible size above)
BucketArgs == {0, 1, 2} \cup {g_a_sizes[i] : i \in 1..num_distinct_sizes}
                        \cup {g_a_sizes[i] + 1 : i \in 1..num_distinct_sizes}
\* the load factors callers set; <<0, 1>> is at or below 1e-9
LoadFactors == {<<0, 1>>, <<1, 8>>, <<1, 2>>, <<2, 1>>}
\* what a build makes of the undefined behaviour on a table of no buckets:
\*   x86:   hash % 0 traps (SIGFPE); begin() of an empty vector is a null
\*          pointer whose before_begin() is only an address computation
\*   arm:   hash % 0 yields a number and buckets.at() throws std::out_of_range
\*   debug: checked iterators abort on the dereference of buckets.begin()
Builds == {"x86", "arm", "debug"}

DEFAULT_LOAD_FACTOR == <<1, 2>>
DEFAULT_BUCKET_SIZE == g_a_sizes[1]

\* buckets, firstBucketIt, tableSize, maxLoadFactor: the fields of the table
\* last: the latest call: its name, arguments, return value (ret, val, the
\*       entries seen by a traversal, the iterator it returned) and the error it
\*       raised ("range_error": std::range_error, "out_of_range":
\*       std::out_of_range, "sigfpe" / "abort": the process was killed)
\* pre:  the table as it was before the latest call
\* uniq: whether the table has, since its construction, received only inserts
\*       of pairwise distinct keys, and the keys of those inserts
\* that: the other table of a copy (live once it is constructed), t its
\*       fields; shared: the two tables' bucket vectors are one storage;
\*       cursorThere: this table's firstBucketIt points into the other
\*       table's bucket vector; cursorHere: the other table's firstBucketIt
\*       points into this table's bucket vector
\* order: where tracked, the keys of the table in the order the caller first
\*       inserted them, and whether a rehash has rebuilt the bucket vector
VARIABLES buckets, firstBucketIt, tableSize, maxLoadFactor, last, pre, uniq,
          that, order

vars ==
  <<buckets, firstBucketIt, tableSize, maxLoadFactor, last, pre, uniq, that,
    order>>

(* ---- helpers ---- *)
Min(S) == CHOOSE x \in S : \A y \in S : x <= y

Table(b, f, s, m) ==
  [buckets |-> b, firstBucketIt |-> f, tableSize |-> s, maxLoadFactor |-> m]

This == Table(buckets, firstBucketIt, tableSize, maxLoadFactor)

EmptyBuckets(n) == [i \in 1..n |-> <<>>]

\* (double) s / (double) n >= f; s / 0.0 is +inf for s > 0 and NaN for s = 0,
\* and every comparison with NaN is false
DivGE(s, n, f) == IF n = 0 THEN s > 0 ELSE s * f[2] >= f[1] * n

\* (double) s / (double) n > f
DivGT(s, n, f) == IF n = 0 THEN s > 0 ELSE s * f[2] > f[1] * n

\* ceil((double) s / f)
CeilDiv(s, f) == (s * f[2] + f[1] - 1) \div f[1]

\* std::lower_bound over g_a_sizes: the index of the first size >= bound,
\* num_distinct_sizes + 1 for `last`
lower_bound(bound) ==
  LET S == {i \in 1..num_distinct_sizes : g_a_sizes[i] >= bound}
  IN  IF S = {} THEN num_distinct_sizes + 1 ELSE Min(S)

hash(key) == key

\* every key is sent to the first bucket
hashKey_FirstBucket(key, bucketSize) == 0

hashKey(key, bucketSize) == hash(key) % bucketSize

keyEqual(a, b) == a = b

loadFactorExceeded(t) == DivGT(t.tableSize, Len(t.buckets), t.maxLoadFactor)

findMinimumBucketSize(t, bucketSize) ==
  IF DivGE(t.tableSize, Len(t.buckets), t.maxLoadFactor)
  THEN LET it == lower_bound(CeilDiv(t.tableSize, t.maxLoadFactor))
       IN  IF it = num_distinct_sizes + 1
           THEN [err |-> "range_error", val |-> 0]
           ELSE [err |-> "none", val |-> g_a_sizes[it]]
  ELSE [err |-> "none", val |-> bucketSize]

(* ---- iterators ---- *)
Iterator(t, vectorIt, listItBefore) ==
  [bucketIt |-> vectorIt, listItBefore |-> listItBefore,
   endFlag |-> (vectorIt = Len(t.buckets))]

end(t) == Iterator(t, Len(t.buckets), 0)

begin(t) ==
  IF t.firstBucketIt # Len(t.buckets)
  THEN Iterator(t, t.firstBucketIt, 0)
  ELSE end(t)

\* operator*: the node after listItBefore
Deref(t, it) == t.buckets[it.bucketIt + 1][it.listItBefore + 1]

increment(t, it) ==
  LET n == Len(t.buckets)
  IN  IF it.bucketIt = n
      THEN [it EXCEPT !.endFlag = TRUE]
      ELSE LET len == Len(t.buckets[it.bucketIt + 1])
               newListItBefore == it.listItBefore + 1
           IN  IF newListItBefore # len + 1 /\ newListItBefore + 1 # len + 1
               THEN [it EXCEPT !.listItBefore = newListItBefore]
               ELSE LET later == {b \in (it.bucketIt + 1)..(n - 1) :
                                     t.buckets[b + 1] # <<>>}
                    IN  IF later = {}
                        THEN [bucketIt |-> n, listItBefore |-> it.listItBefore,
                              endFlag |-> TRUE]
                        ELSE [bucketIt |-> Min(later), listItBefore |-> 0,
                              endFlag |-> FALSE]

\* for (Iterator it = from; !it.endFlag; ++it) vec.push_back(*it);
RECURSIVE Collect(_, _)
Collect(t, it) ==
  IF it.endFlag THEN <<>> ELSE <<Deref(t, it)>> \o Collect(t, increment(t, it))

find(t, key) ==
  LET b == hashKey(key, Len(t.buckets))
      chain == t.buckets[b + 1]
      hits == {i \in 1..Len(chain) : keyEqual(chain[i][1], key)}
  IN  IF hits = {} THEN end(t) ELSE Iterator(t, b, Min(hits) - 1)

\* hash(key) % buckets.size() with no buckets, followed by buckets.at(t)
DivisionByZero(t, build) ==
  [t |-> t, ret |-> FALSE,
   err |-> IF build = "arm" THEN "out_of_range" ELSE "sigfpe"]

\* buckets.begin()->before_begin() with no buckets
EndOfNoBuckets(build) == IF build = "debug" THEN "abort" ELSE "none"

(* ---- operations; each yields [t: the table after, ret, err] ---- *)
\* the value is assigned to a copy of the node, not to the node
overwrite_OnCopy(t, it, value) == t

\* auto it1 = it.listItBefore; ++it1; it1->second = value;
overwrite(t, it, value) ==
  [t EXCEPT !.buckets[it.bucketIt + 1][it.listItBefore + 1][2] = value]

RECURSIVE insertAt(_, _, _, _, _), insert(_, _, _, _), rehash(_, _, _),
          reinsert(_, _, _, _)

\* the new entry is put behind the chain
insertAt_Appends(t, it, key, value, build) ==
  IF it.endFlag
  THEN LET n == Len(t.buckets)
           b == hashKey(key, n)
           t1 == [t EXCEPT !.tableSize = @ + 1,
                           !.buckets[b + 1] = @ \o <<<<key, value>>>>,
                           !.firstBucketIt = IF b < @ THEN b ELSE @]
       IN  IF loadFactorExceeded(t1)
           THEN LET r == rehash(t1, n * 2, build)
                IN  [t |-> r.t, ret |-> (r.err = "none"), err |-> r.err]
           ELSE [t |-> t1, ret |-> TRUE, err |-> "none"]
  ELSE [t |-> overwrite(t, it, value), ret |-> FALSE, err |-> "none"]

\* bool insert(const Iterator &it, const Key &key, const Value &value)
insertAt(t, it, key, value, build) ==
  IF it.endFlag
  THEN LET n == Len(t.buckets)
           b == hashKey(key, n)
           t1 == [t EXCEPT !.tableSize = @ + 1,
                           !.buckets[b + 1] = <<<<key, value>>>> \o @,
                           !.firstBucketIt = IF b < @ THEN b ELSE @]
       IN  IF loadFactorExceeded(t1)
           THEN LET r == rehash(t1, n * 2, build)
                IN  [t |-> r.t, ret |-> (r.err = "none"), err |-> r.err]
           ELSE [t |-> t1, ret |-> TRUE, err |-> "none"]
  ELSE [t |-> overwrite(t, it, value), ret |-> FALSE, err |-> "none"]

\* bool insert(const Key &key, const Value &value)
insert(t, key, value, build) ==
  IF Len(t.buckets) = 0
  THEN DivisionByZero(t, build)
  ELSE insertAt(t, find(t, key), key, value, build)

\* for (auto &[key, value]: vec) insert(key, value);  from vec[i] on
reinsert(t, vec, i, build) ==
  IF i > Len(vec)
  THEN [t |-> t, ret |-> FALSE, err |-> "none"]
  ELSE LET r == insert(t, vec[i][1], vec[i][2], build)
       IN  IF r.err # "none"
           THEN [t |-> r.t, ret |-> FALSE, err |-> r.err]
           ELSE reinsert(r.t, vec, i + 1, build)

\* void rehash(size_t bucketSize)
rehash(t, bucketSize, build) ==
  LET fm == findMinimumBucketSize(t, bucketSize)
  IN  IF fm.err # "none"
      THEN [t |-> t, ret |-> FALSE, err |-> fm.err]
      ELSE IF fm.val = Len(t.buckets)
      THEN [t |-> t, ret |-> FALSE, err |-> "none"]
      ELSE IF Len(t.buckets) = 0 /\ EndOfNoBuckets(build) # "none"
      THEN [t |-> t, ret |-> FALSE, err |-> EndOfNoBuckets(build)]
      ELSE LET vec == Collect(t, begin(t))
           IN  reinsert(Table(EmptyBuckets(fm.val), fm.val, 0, t.maxLoadFactor),
                        vec, 1, build)

\* Iterator erase(const Iterator &it)
eraseAt(t, it) ==
  IF it.endFlag
  THEN [t |-> t, it |-> it]
  ELSE LET n == Len(t.buckets)
           chain == t.buckets[it.bucketIt + 1]
           erased == SubSeq(chain, 1, it.listItBefore)
                       \o SubSeq(chain, it.listItBefore + 2, Len(chain))
           b1 == [t.buckets EXCEPT ![it.bucketIt + 1] = erased]
           rest == {b \in it.bucketIt..(n - 1) : b1[b + 1] # <<>>}
       IN  [t |-> Table(b1,
                        IF t.firstBucketIt < it.bucketIt THEN t.firstBucketIt
                        ELSE IF rest = {} THEN n ELSE Min(rest),
                        t.tableSize - 1, t.maxLoadFactor),
            it |-> it]

\* the table is rehashed to its entry count once the entry is erased
erase_Shrinks(t, key, build) ==
  IF Len(t.buckets) = 0
  THEN DivisionByZero(t, build)
  ELSE LET it == find(t, key)
       IN  IF it.endFlag
           THEN [t |-> t, ret |-> FALSE, err |-> "none"]
           ELSE LET r == rehash(eraseAt(t, it).t, t.tableSize - 1, build)
                IN  [t |-> r.t, ret |-> TRUE, err |-> r.err]

\* bool erase(const Key &key)
erase(t, key, build) ==
  IF Len(t.buckets) = 0
  THEN DivisionByZero(t, build)
  ELSE LET it == find(t, key)
       IN  IF it.endFlag
           THEN [t |-> t, ret |-> FALSE, err |-> "none"]
           ELSE [t |-> eraseAt(t, it).t, ret |-> TRUE, err |-> "none"]

\* Iterator it = find(key); it = erase(it);
eraseFound(t, key, build) ==
  IF Len(t.buckets) = 0
  THEN [t |-> t, it |-> end(t), err |-> DivisionByZero(t, build).err]
  ELSE LET r == eraseAt(t, find(t, key))
       IN  [t |-> r.t, it |-> r.it, err |-> "none"]

\* Value &operator[](const Key &key); val is the value the reference reads
access(t, key, build) ==
  IF Len(t.buckets) = 0
  THEN [t |-> t, val |-> 0, err |-> DivisionByZero(t, build).err]
  ELSE LET it == find(t, key)
       IN  IF it.endFlag
           THEN LET r == insert(t, key, 0, build)
                IN  IF r.err # "none"
                    THEN [t |-> r.t, val |-> 0, err |-> r.err]
                    ELSE [t |-> r.t, val |-> Deref(r.t, find(r.t, key))[2],
                          err |-> "none"]
           ELSE [t |-> t, val |-> Deref(t, it)[2], err |-> "none"]

\* the factor is stored before it is checked
setMaxLoadFactor_StoresFirst(t, loadFactor, build) ==
  LET t1 == [t EXCEPT !.maxLoadFactor = loadFactor]
  IN  IF loadFactor[1] = 0
      THEN [t |-> t1, ret |-> FALSE, err |-> "range_error"]
      ELSE rehash(t1, Len(t1.buckets), build)

\* void setMaxLoadFactor(double loadFactor)
setMaxLoadFactor(t, loadFactor, build) ==
  IF loadFactor[1] = 0
  THEN [t |-> t, ret |-> FALSE, err |-> "range_error"]
  ELSE LET t1 == [t EXCEPT !.maxLoadFactor = loadFactor]
       IN  rehash(t1, Len(t1.buckets), build)

\* HashTable()
DefaultConstructed ==
  Table(EmptyBuckets(DEFAULT_BUCKET_SIZE), DEFAULT_BUCKET_SIZE, 0,
        DEFAULT_LOAD_FACTOR)

\* explicit HashTable(size_t bucketSize): findMinimumBucketSize runs while
\* buckets is still empty and tableSize is 0
Constructed(bucketSize) ==
  LET fm == findMinimumBucketSize(Table(<<>>, 0, 0, DEFAULT_LOAD_FACTOR),
                                  bucketSize)
  IN  [t |-> IF fm.err = "none"
             THEN Table(EmptyBuckets(fm.val), fm.val, 0, DEFAULT_LOAD_FACTOR)
             ELSE Table(<<>>, 0, 0, DEFAULT_LOAD_FACTOR),
       err |-> fm.err]

\* every member is copied from the source with its own copy constructor:
\* std::vector's gives the new table a bucket vector of its own; the code
\* returns at once if this == &that, which no constructor call can make true
CopyConstructed_Shallow(src) ==
  [t |-> Table(src.buckets, src.firstBucketIt, src.tableSize,
               src.maxLoadFactor),
   shared |-> TRUE, cursorInSource |-> FALSE]

\* HashTable(const HashTable &that): the cursor is the source's offset from
\* begin(), taken from the begin() of the new bucket vector
CopyConstructed(src) ==
  [t |-> Table(src.buckets, src.firstBucketIt, src.tableSize,
               src.maxLoadFactor),
   shared |-> FALSE, cursorInSource |-> FALSE]

\* this->firstBucketIt = that.firstBucketIt
assign_KeepsCursor(dst, src) ==
  [t |-> Table(src.buckets, src.firstBucketIt, src.tableSize,
               src.maxLoadFactor),
   shared |-> FALSE, cursorInSource |-> TRUE]

\* HashTable &operator=(const HashTable &that), this != &that
assign(dst, src) ==
  [t |-> Table(src.buckets, src.firstBucketIt, src.tableSize,
               src.maxLoadFactor),
   shared |-> FALSE, cursorInSource |-> FALSE]

\* for (auto it = begin(); it != end(); ++it) seen.push_back(*it);
traverse(t, build) ==
  IF Len(t.buckets) = 0 /\ EndOfNoBuckets(build) # "none"
  THEN [seen |-> <<>>, err |-> EndOfNoBuckets(build)]
  ELSE [seen |-> Collect(t, begin(t)), err |-> "none"]

(* ---- the state machine ---- *)
Call(op, key, arg, f) ==
  [op |-> op, key |-> key, arg |-> arg, f |-> f, ret |-> FALSE, val |-> 0,
   seen |-> <<>>, it |-> [bucketIt |-> 0, listItBefore |-> 0, endFlag |-> FALSE],
   err |-> "none"]

\* a process that trapped or aborted runs no further
Running == last.err \notin {"sigfpe", "abort"}

Holds(t, key) ==
  \E b \in 1..Len(t.buckets) : \E i \in 1..Len(t.buckets[b]) :
    t.buckets[b][i][1] = key

\* the keys in the order of their first insertion, once the table is t
Ordered(t, rebuilt) ==
  IF ~order.tracked
  THEN order
  ELSE [tracked |-> TRUE,
        keys |-> LET isLive(k) == Holds(t, k)
                     isNew(k) == Holds(t, k) /\ ~Holds(This, k)
                 IN  SelectSeq(order.keys, isLive)
                       \o SelectSeq(KeyTable, isNew),
        rebuilt |-> order.rebuilt \/ rebuilt]

\* this table becomes t; a store into a bucket vector that the other table
\* shares is a store into the other table, and a cursor that is assigned
\* points into this table's bucket vector
Changes(t, rebuilt) ==
  /\ buckets' = t.buckets
  /\ firstBucketIt' = t.firstBucketIt
  /\ tableSize' = t.tableSize
  /\ maxLoadFactor' = t.maxLoadFactor
  /\ pre' = This
  /\ that' = [that EXCEPT
                !.t.buckets = IF that.shared THEN t.buckets ELSE @,
                !.cursorThere = @ /\ t.firstBucketIt = firstBucketIt]
  /\ order' = Ordered(t, rebuilt)

\* insert, operator[] and setMaxLoadFactor rebuild the bucket vector exactly
\* when they end with more buckets; erase and a traversal never do
Becomes(t) == Changes(t, Len(t.buckets) # Len(buckets))

NoUniq == [active |-> FALSE, keys |-> {}]

NoTable ==
  [live |-> FALSE, t |-> Table(<<>>, 0, 0, DEFAULT_LOAD_FACTOR),
   shared |-> FALSE, cursorThere |-> FALSE, cursorHere |-> FALSE]

Untracked == [tracked |-> FALSE, keys |-> <<>>, rebuilt |-> FALSE]

Constructing ==
  /\ \/ /\ buckets = DefaultConstructed.buckets
        /\ firstBucketIt = DefaultConstructed.firstBucketIt
        /\ tableSize = DefaultConstructed.tableSize
        /\ maxLoadFactor = DefaultConstructed.maxLoadFactor
        /\ last = Call("HashTable", 0, DEFAULT_BUCKET_SIZE, DEFAULT_LOAD_FACTOR)
     \/ \E n \in BucketArgs :
          /\ buckets = Constructed(n).t.buckets
          /\ firstBucketIt = Constructed(n).t.firstBucketIt
          /\ tableSize = Constructed(n).t.tableSize
          /\ maxLoadFactor = Constructed(n).t.maxLoadFactor
          /\ last = [Call("HashTable(n)", 0, n, DEFAULT_LOAD_FACTOR)
                       EXCEPT !.err = Constructed(n).err]
  /\ pre = Table(<<>>, 0, 0, DEFAULT_LOAD_FACTOR)
  /\ uniq = [active |-> TRUE, keys |-> {}]
  /\ that = NoTable

Init == Constructing /\ order = Untracked

Insert(key, value, build) ==
  /\ Running
  /\ LET r == insert(This, key, value, build)
     IN  /\ Becomes(r.t)
         /\ last' = [Call("insert", key, value, maxLoadFactor)
                       EXCEPT !.ret = r.ret, !.err = r.err]
         /\ uniq' = IF uniq.active /\ key \notin uniq.keys /\ r.err # "range_error"
                    THEN [active |-> TRUE, keys |-> uniq.keys \cup {key}]
                    ELSE NoUniq

Erase(key, build) ==
  /\ Running
  /\ LET r == erase(This, key, build)
     IN  /\ Becomes(r.t)
         /\ last' = [Call("erase", key, 0, maxLoadFactor)
                       EXCEPT !.ret = r.ret, !.err = r.err]
         /\ uniq' = NoUniq

EraseAt(key, build) ==
  /\ Running
  /\ LET r == eraseFound(This, key, build)
     IN  /\ Becomes(r.t)
         /\ last' = [Call("eraseAt", key, 0, maxLoadFactor)
                       EXCEPT !.it = r.it, !.err = r.err]
         /\ uniq' = NoUniq

Access(key, build) ==
  /\ Running
  /\ LET r == access(This, key, build)
     IN  /\ Becomes(r.t)
         /\ last' = [Call("access", key, 0, maxLoadFactor)
                       EXCEPT !.val = r.val, !.err = r.err]
         /\ uniq' = NoUniq

Rehash(bucketSize, build) ==
  /\ Running
  /\ LET r == rehash(This, bucketSize, build)
         fm == findMinimumBucketSize(This, bucketSize)
     IN  /\ Changes(r.t, fm.err = "none" /\ fm.val # Len(buckets))
         /\ last' = [Call("rehash", 0, bucketSize, maxLoadFactor)
                       EXCEPT !.err = r.err]
         /\ uniq' = NoUniq

SetMaxLoadFactor(loadFactor, build) ==
  /\ Running
  /\ LET r == setMaxLoadFactor(This, loadFactor, build)
     IN  /\ Becomes(r.t)
         /\ last' = [Call("setMaxLoadFactor", 0, 0, loadFactor)
                       EXCEPT !.err = r.err]
         /\ uniq' = NoUniq

Traverse(build) ==
  /\ Running
  /\ LET r == traverse(This, build)
     IN  /\ Becomes(This)
         /\ last' = [Call("traverse", 0, 0, maxLoadFactor)
                       EXCEPT !.seen = r.seen, !.err = r.err]
         /\ uniq' = NoUniq

\* the builds differ only where the undefined behaviour is reached: in a call
\* on a table of no buckets, and in a rehash towards no buckets
Outcomes(undefined) == IF undefined THEN Builds ELSE {"x86"}

Next ==
  \/ \E k \in Keys, v \in Values :
       \E b \in Outcomes(Len(buckets) = 0) : Insert(k, v, b)
  \/ \E k \in Keys : \E b \in Outcomes(Len(buckets) = 0) : Erase(k, b)
  \/ \E k \in Keys : \E b \in Outcomes(Len(buckets) = 0) : EraseAt(k, b)
  \/ \E k \in Keys : \E b \in Outcomes(Len(buckets) = 0) : Access(k, b)
  \/ \E n \in BucketArgs :
       \E b \in Outcomes(Len(buckets) = 0 \/ n = 0) : Rehash(n, b)
  \/ \E f \in LoadFactors :
       \E b \in Outcomes(Len(buckets) = 0) : SetMaxLoadFactor(f, b)
  \/ \E b \in Outcomes(Len(buckets) = 0) : Traverse(b)

Spec == Init /\ [][Next]_vars

\* a default-constructed table, the order of the insertions tracked
InitOrder ==
  /\ buckets = DefaultConstructed.buckets
  /\ firstBucketIt = DefaultConstructed.firstBucketIt
  /\ tableSize = DefaultConstructed.tableSize
  /\ maxLoadFactor = DefaultConstructed.maxLoadFactor
  /\ last = Call("HashTable", 0, DEFAULT_BUCKET_SIZE, DEFAULT_LOAD_FACTOR)
  /\ pre = Table(<<>>, 0, 0, DEFAULT_LOAD_FACTOR)
  /\ uniq = [active |-> TRUE, keys |-> {}]
  /\ that = NoTable
  /\ order = [Untracked EXCEPT !.tracked = TRUE]

\* the calls that decide the order of a chain: every key, one value, every
\* rehash that leaves the table with buckets, every load factor
OrderBucketArgs == BucketArgs \ {0}
OrderLoadFactors == LoadFactors

NextOrder ==
  \/ \E k \in Keys : Insert(k, 0, "x86")
  \/ \E k \in Keys : Erase(k, "x86")
  \/ \E k \in Keys : EraseAt(k, "x86")
  \/ \E k \in Keys : Access(k, "x86")
  \/ \E n \in OrderBucketArgs : Rehash(n, "x86")
  \/ \E f \in OrderLoadFactors : SetMaxLoadFactor(f, "x86")

\* the state machine with the order of the insertions tracked
SpecOrder == InitOrder /\ [][NextOrder]_vars

\* HashTable other(*this); the calls that follow are made on the original
\* (focus "source") or on the new table (focus "copy")
CopyConstruct(focus) ==
  /\ Running
  /\ ~that.live
  /\ LET c == CopyConstructed(This)
     IN  IF focus = "copy"
         THEN /\ buckets' = c.t.buckets
              /\ firstBucketIt' = c.t.firstBucketIt
              /\ tableSize' = c.t.tableSize
              /\ maxLoadFactor' = c.t.maxLoadFactor
              /\ that' = [live |-> TRUE, t |-> This, shared |-> c.shared,
                          cursorThere |-> c.cursorInSource,
                          cursorHere |-> FALSE]
         ELSE /\ UNCHANGED <<buckets, firstBucketIt, tableSize, maxLoadFactor>>
              /\ that' = [live |-> TRUE, t |-> c.t, shared |-> c.shared,
                          cursorThere |-> FALSE,
                          cursorHere |-> c.cursorInSource]
  /\ pre' = This
  /\ last' = Call(IF focus = "copy" THEN "this(that)" ELSE "that(this)", 0, 0,
                  maxLoadFactor)
  /\ uniq' = NoUniq
  /\ order' = order

\* *this = other; other = *this; *this = *this;
CopyAssign(dst) ==
  /\ Running
  /\ that.live
  /\ CASE dst = "this" ->
            LET c == assign(This, that.t)
            IN  /\ buckets' = c.t.buckets
                /\ firstBucketIt' = c.t.firstBucketIt
                /\ tableSize' = c.t.tableSize
                /\ maxLoadFactor' = c.t.maxLoadFactor
                /\ that' = [that EXCEPT !.shared = c.shared,
                                        !.cursorThere = c.cursorInSource]
                /\ order' = Untracked
       [] dst = "that" ->
            LET c == assign(that.t, This)
            IN  /\ UNCHANGED <<buckets, firstBucketIt, tableSize,
                               maxLoadFactor, order>>
                /\ that' = [that EXCEPT !.t = c.t, !.shared = c.shared,
                                        !.cursorHere = c.cursorInSource]
       [] dst = "self" ->
            UNCHANGED <<buckets, firstBucketIt, tableSize, maxLoadFactor,
                        that, order>>
  /\ pre' = This
  /\ last' = Call(CASE dst = "this" -> "this=that"
                    [] dst = "that" -> "that=this"
                    [] dst = "self" -> "this=this", 0, 0, maxLoadFactor)
  /\ uniq' = NoUniq

\* the calls made on the two tables of a copy: two keys that collide in a
\* table of the default size, inserted with a value that operator[] does not
\* give, a rehash to the next size and one to a size that is not admissible,
\* the default load factor and one that makes a single entry grow the table
CopyKeys == {KeyTable[1], KeyTable[2]}
CopyBucketArgs == {2, g_a_sizes[num_distinct_sizes]}
CopyLoadFactors == {<<1, 8>>, DEFAULT_LOAD_FACTOR}

NextCopy ==
  \/ \E k \in CopyKeys :
       \E b \in Outcomes(Len(buckets) = 0) : Insert(k, 1, b)
  \/ \E k \in CopyKeys :
       \E b \in Outcomes(Len(buckets) = 0) : Erase(k, b)
  \/ \E k \in CopyKeys :
       \E b \in Outcomes(Len(buckets) = 0) : EraseAt(k, b)
  \/ \E k \in CopyKeys :
       \E b \in Outcomes(Len(buckets) = 0) : Access(k, b)
  \/ \E n \in CopyBucketArgs :
       \E b \in Outcomes(Len(buckets) = 0) : Rehash(n, b)
  \/ \E f \in CopyLoadFactors :
       \E b \in Outcomes(Len(buckets) = 0) : SetMaxLoadFactor(f, b)
  \/ \E focus \in {"source", "copy"} : CopyConstruct(focus)
  \/ \E dst \in {"this", "that", "self"} : CopyAssign(dst)

\* the state machine with a second table, made and assigned by copy
SpecCopy == Init /\ [][NextCopy]_vars

(* ---- what the claims speak of ---- *)
\* the admissible sizes
Admissible == {g_a_sizes[i] : i \in 1..num_distinct_sizes}

\* loadFactor() <= getMaxLoadFactor(), in doubles (false for NaN and +inf)
LoadFactorWithinMax(t) ==
  /\ Len(t.buckets) # 0
  /\ t.tableSize * t.maxLoadFactor[2] <= t.maxLoadFactor[1] * Len(t.buckets)

\* the places <<bucket, node>> of the live entries
Places(t) ==
  {p \in (1..Len(t.buckets)) \X (1..NumKeys + 1) : p[2] <= Len(t.buckets[p[1]])}

EntryAt(t, p) == t.buckets[p[1]][p[2]]

Present(t, key) == \E p \in Places(t) : EntryAt(t, p)[1] = key

\* how often entry e is stored in the table, and how often it occurs in seq
Stored(t, e) == Cardinality({p \in Places(t) : EntryAt(t, p) = e})
Occurs(seq, e) == Cardinality({i \in 1..Len(seq) : seq[i] = e})

\* contains(key): find(key) != end()
Found(t, key) == Len(t.buckets) # 0 /\ ~find(t, key).endFlag

\* C1: whenever insert(key, value) returns, with true or with false,
\* size() / bucketCount() <= maxLoadFactor() holds in the resulting state.
C1_LoadWithinMaxAfterInsert ==
  (last.op = "insert" /\ last.err = "none") => LoadFactorWithinMax(This)

\* C2: after a newly constructed (empty) table has received only inserts of
\* pairwise distinct keys, every one of them returned true, size() is the
\* number of inserts and find locates every inserted key.  (An insert that
\* reports that no admissible size is left ends the sequence.)
C2_DistinctInsertsAllStored ==
  uniq.active =>
    /\ last.err = "none"
    /\ last.op = "insert" => last.ret
    /\ tableSize = Cardinality(uniq.keys)
    /\ \A k \in uniq.keys : Found(This, k)

C4_EraseThenFind ==
  last.op = "erase" =>
    /\ last.err = "none"
    /\ IF Present(pre, last.key)
       THEN /\ last.ret
            /\ tableSize = pre.tableSize - 1
            /\ ~Found(This, last.key)
            /\ ~Present(This, last.key)
       ELSE /\ ~last.ret
            /\ This = pre

\* C5: advancing an iterator from begin() reaches end() after exactly size()
\* advances, and the entries dereferenced on the way are exactly the live
\* entries, each visited exactly once.
C5_TraversalVisitsAll ==
  last.op = "traverse" =>
    /\ last.err = "none"
    /\ Len(last.seen) = tableSize
    /\ \A k \in Keys, v \in Values :
         Occurs(last.seen, <<k, v>>) = Stored(This, <<k, v>>)

\* C6: construct(minBuckets) yields an empty table whose bucket count is the
\* smallest admissible size >= minBuckets, for every minBuckets that has one.
C6_ConstructRoundsUp ==
  (last.op = "HashTable(n)" /\ \E p \in Admissible : p >= last.arg) =>
    /\ last.err = "none"
    /\ tableSize = 0
    /\ Len(buckets) = Min({p \in Admissible : p >= last.arg})

\* C7: in every reachable state bucketCount() is one of the admissible sizes.
C7_BucketCountAdmissible == Len(buckets) \in Admissible

\* C8: rehash(lowerBound) leaves bucketCount() the smallest admissible size
\* that is >= lowerBound and > floor(size / maxLoadFactor); when there is no
\* such size the call fails with the out-of-range error.
C8_RehashChoosesSmallest ==
  last.op = "rehash" =>
    LET fit == {p \in Admissible :
                  /\ p >= last.arg
                  /\ p > (pre.tableSize * pre.maxLoadFactor[2])
                           \div pre.maxLoadFactor[1]}
    IN  IF fit = {}
        THEN last.err = "range_error"
        ELSE last.err = "none" /\ Len(buckets) = Min(fit)

\* C9: a rehash(lowerBound) that fails with an out-of-range error at any
\* point of its execution leaves the table exactly as it was before the call.
C9_FailedRehashChangesNothing ==
  (last.op = "rehash" /\ last.err \in {"range_error", "out_of_range"}) =>
    This = pre

\* C10: when insert(key, value) of an absent key fails because no admissible
\* size is left, the key is still absent, size() is unchanged and
\* size() / bucketCount() <= maxLoadFactor() still holds.
C10_FailedInsertLeavesNothing ==
  (last.op = "insert" /\ last.err = "range_error" /\ ~Present(pre, last.key)) =>
    /\ ~Present(This, last.key)
    /\ tableSize = pre.tableSize
    /\ LoadFactorWithinMax(pre) => LoadFactorWithinMax(This)

(* ---- facts that bound where the claims above fail ---- *)
\* the cached cursor is the first non-empty bucket, buckets.end() if none
CursorIsFirstOccupied ==
  LET occupied == {b \in 0..(Len(buckets) - 1) : buckets[b + 1] # <<>>}
  IN  firstBucketIt = IF occupied = {} THEN Len(buckets) ELSE Min(occupied)

\* no key is stored twice, and tableSize counts the stored entries
KeysStoredOnce ==
  /\ \A p, q \in Places(This) : EntryAt(This, p)[1] = EntryAt(This, q)[1] => p = q
  /\ tableSize = Cardinality(Places(This))

\* an insert that starts within the maximum load and returns ends within it
InsertKeepsLoadWithinMax ==
  (last.op = "insert" /\ last.err = "none" /\ LoadFactorWithinMax(pre)) =>
    LoadFactorWithinMax(This)

\* C2, C4 and C5 hold of every table that has a bucket
WithBucketsInsertEraseTraverse ==
  /\ Len(buckets) # 0 => C2_DistinctInsertsAllStored /\ C5_TraversalVisitsAll
  /\ Len(pre.buckets) # 0 => C4_EraseThenFind

\* a rehash refused by findMinimumBucketSize leaves the table as it was
RefusedRehashChangesNothing ==
  (last.op = "rehash" /\ last.err = "range_error") => This = pre

(* ---- further vocabulary of the claims ---- *)
\* the two tables store the same <<key, value>> entries, each as often
SameEntries(t, u) ==
  \A k \in Keys, v \in Values : Stored(t, <<k, v>>) = Stored(u, <<k, v>>)

\* the error a sizing request raises when no admissible size is left
SizingError ==
  findMinimumBucketSize(
    Table(EmptyBuckets(1), 1, g_a_sizes[num_distinct_sizes] + 1,
          DEFAULT_LOAD_FACTOR), 1).err

\* C11: setMaxLoadFactor(f) is all-or-nothing: it completes with
\* maxLoadFactor() = f, the same entries and size() / bucketCount() <= f, or
\* it fails and leaves the table, maxLoadFactor() included, as it was.
\* (Of a table with no buckets the quotient is not a number: the formula asks
\* of the load that it does not exceed f.)
C11_SetMaxLoadFactorAllOrNothing ==
  last.op = "setMaxLoadFactor" =>
    IF last.err = "none"
    THEN /\ maxLoadFactor = last.f
         /\ SameEntries(This, pre)
         /\ tableSize = pre.tableSize
         /\ ~loadFactorExceeded(This)
    ELSE This = pre

\* C12 as claimed: setMaxLoadFactor(f) with f <= 1e-9 fails with an error of
\* a kind other than the one sizing failures raise, and changes nothing.
C12_TooSmallFactorIsItsOwnKind ==
  (last.op = "setMaxLoadFactor" /\ last.f[1] = 0) =>
    /\ last.err \notin {"none", SizingError}
    /\ This = pre

\* C12 as amended: setMaxLoadFactor(f) with f <= 1e-9 fails with
\* std::range_error, the kind sizing failures raise too, and changes nothing.
C12_TooSmallFactorIsRangeError ==
  (last.op = "setMaxLoadFactor" /\ last.f[1] = 0) =>
    /\ last.err = "range_error"
    /\ last.err = SizingError
    /\ This = pre

\* C12's case: a factor at or below 1e-9 was refused by a table with entries
C12_Witness ==
  /\ last.op = "setMaxLoadFactor"
  /\ last.f[1] = 0
  /\ tableSize >= 2
  /\ maxLoadFactor # DEFAULT_LOAD_FACTOR

\* C14: a rehash(lowerBound) that completes leaves the entries and size()
\* unchanged, and rehash(bucketCount()) leaves bucketCount() unchanged too.
C14_RehashKeepsEntries ==
  (last.op = "rehash" /\ last.err = "none") =>
    /\ SameEntries(This, pre)
    /\ tableSize = pre.tableSize
    /\ last.arg = Len(pre.buckets) => Len(buckets) = Len(pre.buckets)

\* C17: an insert of an absent key that leaves size() / bucketCount() above
\* maxLoadFactor() rehashes to at least twice the bucket count it started
\* with; otherwise the bucket count is unchanged.
C17_GrowthAtLeastDoubles ==
  (last.op = "insert" /\ last.err = "none" /\ ~Present(pre, last.key)) =>
    IF DivGT(pre.tableSize + 1, Len(pre.buckets), pre.maxLoadFactor)
    THEN Len(buckets) >= 2 * Len(pre.buckets)
    ELSE Len(buckets) = Len(pre.buckets)

\* C18: erase never changes bucketCount(), and insert, access and
\* setMaxLoadFactor never decrease it (only an explicit rehash(n) may).
C18_GrowthOnly ==
  /\ last.op \in {"erase", "eraseAt", "traverse"} =>
       Len(buckets) = Len(pre.buckets)
  /\ last.op \in {"insert", "access", "setMaxLoadFactor"} =>
       Len(buckets) >= Len(pre.buckets)

\* the iterator stands at an entry of the table
Dereferenceable(t, it) ==
  /\ ~it.endFlag
  /\ it.bucketIt < Len(t.buckets)
  /\ it.listItBefore + 1 <= Len(t.buckets[it.bucketIt + 1])

\* C13: erase(it) of a found locator returns an iterator at the logical
\* successor of the erased entry: the entry a traversal visited right after
\* it before the erase, or end() if the erased entry was the last one.
C13_EraseReturnsSuccessor ==
  (last.op = "eraseAt" /\ Present(pre, last.key)) =>
    /\ last.err = "none"
    /\ LET successor == increment(pre, find(pre, last.key))
       IN  IF successor.endFlag
           THEN last.it.endFlag
           ELSE /\ Dereferenceable(This, last.it)
                /\ Deref(This, last.it) = Deref(pre, successor)

\* C18's case: the last entry was erased from a table that had grown
C18_Witness ==
  /\ last.op = "erase"
  /\ last.ret
  /\ tableSize = 0
  /\ Len(buckets) > DEFAULT_BUCKET_SIZE

(* ---- two tables ---- *)
TableCalls ==
  {"insert", "erase", "eraseAt", "access", "rehash", "setMaxLoadFactor"}

\* C15: a copy starts with the entries of its source, copying leaves the
\* source as it was, and whatever insert, erase, operator[], rehash or
\* setMaxLoadFactor does to one of the two tables, the other keeps its
\* buckets, its size, its maximum load factor and its cursor.
C15_CopiesAreIsolated ==
  [][ /\ (that.live /\ last'.op \in TableCalls) => that'.t = that.t
      /\ last'.op \in {"that(this)", "that=this"} =>
           /\ This' = This
           /\ SameEntries(that'.t, This)
      /\ last'.op = "this(that)" =>
           /\ that'.t = This
           /\ SameEntries(This', This)
      /\ last'.op = "this=that" =>
           /\ that'.t = that.t
           /\ SameEntries(This', that.t)
    ]_vars

\* C15's case: a table and its copy that a later insert has made differ
C15_Witness ==
  /\ that.live
  /\ last.op = "insert" /\ last.ret
  /\ that.t.tableSize >= 1
  /\ tableSize = that.t.tableSize + 1
  /\ Len(buckets) > Len(that.t.buckets)

\* the index of the lowest non-empty bucket, buckets.end() if there is none
FirstOccupied(t) ==
  LET occupied == {b \in 0..(Len(t.buckets) - 1) : t.buckets[b + 1] # <<>>}
  IN  IF occupied = {} THEN Len(t.buckets) ELSE Min(occupied)

CursorRight(t) ==
  /\ t.firstBucketIt = FirstOccupied(t)
  /\ t.firstBucketIt = Len(t.buckets) <=> t.tableSize = 0

\* C16: in every state, the cursor of a table is the index of its lowest
\* non-empty bucket, and the end of its buckets exactly when it has no
\* entries; the cursor of either table of a copy points into that table's own
\* bucket vector.
C16_CursorIsFirstOccupied ==
  /\ CursorRight(This)
  /\ that.live => CursorRight(that.t)
  /\ ~that.cursorThere
  /\ ~that.cursorHere

\* C16's case: an erase has moved the cursor of a table that was assigned to
\* another one, whose cursor stays behind
C16_Witness ==
  /\ that.live
  /\ last.op = "eraseAt"
  /\ tableSize >= 1
  /\ firstBucketIt > pre.firstBucketIt
  /\ that.t.firstBucketIt = pre.firstBucketIt

WellPlaced(t) ==
  /\ \A p \in Places(t) :
       hash(EntryAt(t, p)[1]) % Len(t.buckets) = p[1] - 1
  /\ \A p, q \in Places(t) :
       keyEqual(EntryAt(t, p)[1], EntryAt(t, q)[1]) => p = q

\* C20: in every state, no two entries of a table have equal keys and every
\* entry is in the bucket hash(key) mod bucketCount(), in a table and in its
\* copy.
C20_KeysUniqueAndPlaced ==
  /\ WellPlaced(This)
  /\ that.live => WellPlaced(that.t)

\* C20's case: a rehash has moved two colliding keys of a table that has a
\* copy
C20_Witness ==
  /\ that.live
  /\ last.op = "rehash"
  /\ Len(buckets) # Len(pre.buckets)
  /\ tableSize >= 2
  /\ that.t.tableSize >= 2

(* ---- the order within a chain ---- *)
\* the place of a key in the order of the caller's first insertions
Stamp(key) ==
  Min({i \in 1..Len(order.keys) : order.keys[i] = key} \cup {Len(order.keys) + 1})

MostRecentFirst ==
  \A b \in 1..Len(buckets) : \A i, j \in 1..Len(buckets[b]) :
    i < j => Stamp(buckets[b][i][1]) > Stamp(buckets[b][j][1])

\* C19 as the claim has it: in every state, after rehashes too, the entries of
\* a chain are in the order most recently inserted first.
C19_ChainsMostRecentFirst == order.tracked => MostRecentFirst

\* C19: as long as no rehash has rebuilt the bucket vector, the entries of a
\* chain are in the order most recently inserted first.
C19_ChainsMostRecentFirstUntilRebuilt ==
  (order.tracked /\ ~order.rebuilt) => MostRecentFirst

\* C19's case: a chain of two entries, the key inserted later in front, and
\* an erase before it
C19_Witness ==
  /\ order.tracked /\ ~order.rebuilt
  /\ Len(order.keys) >= 2
  /\ \E b \in 1..Len(buckets) :
       /\ Len(buckets[b]) >= 2
       /\ buckets[b][1][1] # order.keys[1]
  /\ \E k \in Keys : ~Present(This, k) /\ Present(pre, k)

====
